---- MODULE Spec2Model ----
(***************************************************************************)
(* Mini Store (src/app.py): accounts, catalog, cart and orders over three  *)
(* MongoDB collections, driven by a Streamlit script that runs one button  *)
(* handler to completion per rerun.                                        *)
(*                                                                         *)
(* Four specifications share the variables:                                *)
(*   Spec      one browser session working through the pages;              *)
(*   SpecAccounts  get_db's admin bootstrap at each process start, and     *)
(*                 create_user called directly with any arguments;         *)
(*   SpecApi   create_product and place_order called directly;             *)
(*   SpecConc  two sessions inside create_user at once, each find_one and  *)
(*             insert_one one atomic database step.                        *)
(*                                                                         *)
(* Conventions: a collection is the sequence of its documents in insertion *)
(* order (no document is ever updated or deleted); the ObjectId generated  *)
(* for a document is its insertion number; find_one without a sort returns *)
(* the first match in that order; prices are whole rupees (exact as        *)
(* Python floats).                                                         *)
(***************************************************************************)
EXTENDS Integers, Sequences, FiniteSets, TLC

VARIABLES
    users,      \* users_col: documents [username, password, role]
    products,   \* products_col: documents [name, price]
    orders,     \* orders_col: documents [user_id, username, items, total, status]
    page,       \* st.session_state.page
    user,       \* st.session_state.user
    cart,       \* st.session_state.cart
    ui,         \* the handler the last rerun executed and what it displayed
    calls       \* SpecConc: each session's create_user call in progress

vars == <<users, products, orders, page, user, cart, ui, calls>>

-----------------------------------------------------------------------------
(* Bounds and input alphabets *)

MaxProducts == 2
MaxLines == 2

Usernames == {"admin", "alice"}
Passwords == {"pw", "other"}
Roles == {"admin", "user"}
Salts == {"s1", "s2"}
ProductInputs == {<<"Shirt", 299>>, <<"Shoes", 999>>, <<"", 299>>}
Quantities == {1, 2}
Sessions == {1, 2}

\* The deployment's [admin] secrets (ADMIN_USERNAME, ADMIN_PASSWORD) in Spec.
AdminUsername == "admin"
AdminPassword == "pw"

-----------------------------------------------------------------------------
(* Values *)

\* Python's None, where a user dict is expected.
None == [_id |-> [hex |-> 0], username |-> "", role |-> "None"]

\* str(ObjectId) and ObjectId(str): the 24-digit hex form and back.
StrOfId(oid) == [hex |-> oid]

ObjectId(s) == s.hex

IdleCall == [pc |-> "idle", username |-> "", password |-> "", ok |-> FALSE]

RECURSIVE OrderLines(_)
\* Number of cart lines held by the stored orders.
OrderLines(coll) ==
    IF coll = <<>> THEN 0 ELSE Len(Head(coll).items) + OrderLines(Tail(coll))

RECURSIVE SumItems(_)
\* sum(item["price"] * item.get("qty", 1) for item in cart_items)
SumItems(items) ==
    IF items = <<>> THEN 0
    ELSE Head(items).price * Head(items).qty + SumItems(Tail(items))

-----------------------------------------------------------------------------
(* Credential hashing *)

\* bcrypt's digest of a password under a salt (collision-free).
Digest(salt, password) == <<salt, password>>

\* hash_password: bcrypt.hashpw(password, bcrypt.gensalt()); salt is the fresh salt.
hash_password(password, salt) == [salt |-> salt, digest |-> Digest(salt, password)]

\* check_password: bcrypt.checkpw re-hashes under the stored salt and compares.
check_password(password, hashed) == Digest(hashed.salt, password) = hashed.digest

-----------------------------------------------------------------------------
(* Persistence: find_one over users_col *)

\* Position of the first document of coll whose index is in S (0: no match).
FirstOf(S) == IF S = {} THEN 0 ELSE CHOOSE i \in S : \A j \in S : i <= j

\* users_col.find_one({"username": username})
find_user(coll, username) ==
    FirstOf({i \in 1..Len(coll) : coll[i].username = username})

\* users_col.find_one({"username": admin_user, "role": "admin"})
find_admin(coll, username) ==
    FirstOf({i \in 1..Len(coll) : coll[i].username = username /\ coll[i].role = "admin"})

-----------------------------------------------------------------------------
(* Helper functions of app.py; each returns what the Python function       *)
(* returns together with the collection as the call leaves it.             *)

\* get_db: "Create admin user if not exists"; an unset name or password is "".
bootstrap_admin(coll, admin_user, admin_password, salt) ==
    IF admin_user # "" /\ admin_password # "" /\ find_admin(coll, admin_user) = 0
    THEN Append(coll, [username |-> admin_user,
                       password |-> hash_password(admin_password, salt),
                       role |-> "admin"])
    ELSE coll

create_user_Overwrite(coll, username, password, role, salt) ==
    LET i == find_user(coll, username)
        doc == [username |-> username,
                password |-> hash_password(password, salt),
                role |-> role]
    IN  IF i # 0
        THEN [ok |-> FALSE, msg |-> "User already exists!",
              users |-> [coll EXCEPT ![i] = doc]]
        ELSE [ok |-> TRUE, msg |-> "User created successfully!",
              users |-> Append(coll, doc)]

create_user(coll, username, password, role, salt) ==
    IF find_user(coll, username) # 0
    THEN [ok |-> FALSE, msg |-> "User already exists!", users |-> coll]
    ELSE [ok |-> TRUE, msg |-> "User created successfully!",
          users |-> Append(coll, [username |-> username,
                                  password |-> hash_password(password, salt),
                                  role |-> role])]

\* create_product: inserts whatever it is given.
create_product(coll, name, price) == Append(coll, [name |-> name, price |-> price])

\* list_products: every document, in insertion order, with its _id.
list_products(coll) ==
    [i \in 1..Len(coll) |-> [_id |-> i, name |-> coll[i].name, price |-> coll[i].price]]

authenticate_Leaky(coll, username, password) ==
    LET i == find_user(coll, username)
    IN  IF i = 0 THEN [None EXCEPT !.role = "NotFound"]
        ELSE IF check_password(password, coll[i].password)
             THEN [_id |-> StrOfId(i), username |-> coll[i].username, role |-> coll[i].role]
             ELSE [None EXCEPT !.role = "BadPassword"]

authenticate(coll, username, password) ==
    LET i == find_user(coll, username)
    IN  IF i = 0 THEN None
        ELSE IF check_password(password, coll[i].password)
             THEN [_id |-> StrOfId(i), username |-> coll[i].username, role |-> coll[i].role]
             ELSE None

place_order_UnitPrices(coll, user_id, username, cart_items, dbOk) ==
    LET order == [user_id |-> ObjectId(user_id), username |-> username,
                  items |-> cart_items,
                  total |-> SumItems([i \in 1..Len(cart_items) |->
                                         [cart_items[i] EXCEPT !.qty = 1]]),
                  status |-> "placed"]
    IN  [raised |-> ~dbOk, order |-> order,
         orders |-> IF dbOk THEN Append(coll, order) ELSE coll]

\* place_order; dbOk is whether orders_col.insert_one succeeds or raises.
place_order(coll, user_id, username, cart_items, dbOk) ==
    LET order == [user_id |-> ObjectId(user_id), username |-> username,
                  items |-> cart_items,
                  total |-> SumItems(cart_items),
                  status |-> "placed"]
    IN  [raised |-> ~dbOk, order |-> order,
         orders |-> IF dbOk THEN Append(coll, order) ELSE coll]

logout_KeepsCart == [user |-> None, cart |-> cart, page |-> "login"]

\* logout(): the session it leaves.
logout == [user |-> None, cart |-> <<>>, page |-> "login"]

-----------------------------------------------------------------------------
(* Login page: the session and message each tab's button leaves *)

login_admin_NoRoleCheck(username, password) ==
    LET u == authenticate(users, username, password)
    IN  IF u # None
        THEN [user |-> u, page |-> "admin", cart |-> cart, msg |-> "Admin login successful!"]
        ELSE [user |-> user, page |-> page, cart |-> cart, msg |-> "Invalid admin credentials."]

login_admin(username, password) ==
    LET u == authenticate(users, username, password)
    IN  IF u # None /\ u.role = "admin"
        THEN [user |-> u, page |-> "admin", cart |-> cart, msg |-> "Admin login successful!"]
        ELSE [user |-> user, page |-> page, cart |-> cart, msg |-> "Invalid admin credentials."]

login_user(username, password) ==
    LET u == authenticate(users, username, password)
    IN  IF u # None /\ u.role = "user"
        THEN [user |-> u, page |-> "store", cart |-> cart, msg |-> "Login successful!"]
        ELSE [user |-> user, page |-> page, cart |-> cart, msg |-> "Invalid user credentials."]

-----------------------------------------------------------------------------
(* Spec: one session; each action is one rerun of the script with one      *)
(* button pressed.                                                         *)

Init ==
    /\ \E s \in Salts : users = bootstrap_admin(<<>>, AdminUsername, AdminPassword, s)
    /\ products = <<>>
    /\ orders = <<>>
    /\ page = "login"
    /\ user = None
    /\ cart = <<>>
    /\ ui = [event |-> "start", msg |-> ""]
    /\ calls = [s \in Sessions |-> IdleCall]

LoginAsAdmin(username, password) ==
    /\ page = "login"
    /\ LET r == login_admin(username, password)
       IN  /\ user' = r.user
           /\ page' = r.page
           /\ cart' = r.cart
           /\ ui' = [event |-> "login_admin", msg |-> r.msg]
    /\ UNCHANGED <<users, products, orders, calls>>

LoginAsUser(username, password) ==
    /\ page = "login"
    /\ LET r == login_user(username, password)
       IN  /\ user' = r.user
           /\ page' = r.page
           /\ cart' = r.cart
           /\ ui' = [event |-> "login_user", msg |-> r.msg]
    /\ UNCHANGED <<users, products, orders, calls>>

\* Header "Logout" button, shown whenever a user is logged in.
Logout ==
    /\ user # None
    /\ user' = logout.user
    /\ cart' = logout.cart
    /\ page' = logout.page
    /\ ui' = [event |-> "logout", msg |-> ""]
    /\ UNCHANGED <<users, products, orders, calls>>

\* "Back to Login" button at the foot of the admin and store pages.
BackToLogin ==
    /\ page \in {"admin", "store"}
    /\ user' = logout.user
    /\ cart' = logout.cart
    /\ page' = logout.page
    /\ ui' = [event |-> "back_to_login", msg |-> ""]
    /\ UNCHANGED <<users, products, orders, calls>>

\* Admin page, create_user_form.
CreateUserForm(new_user, new_pass) ==
    /\ page = "admin"
    /\ \E salt \in Salts :
           LET r == create_user(users, new_user, new_pass, "user", salt)
           IN  /\ users' = r.users
               /\ ui' = [event |-> "create_user", msg |-> r.msg]
    /\ UNCHANGED <<products, orders, page, user, cart, calls>>

\* Admin page, create_product_form; the price widget has min_value=0.0.
AddProductForm(pname, pprice) ==
    /\ page = "admin"
    /\ Len(products) < MaxProducts
    /\ pprice >= 0
    /\ IF pname # ""
       THEN /\ products' = create_product(products, pname, pprice)
            /\ ui' = [event |-> "create_product", msg |-> "Product added successfully!"]
       ELSE /\ products' = products
            /\ ui' = [event |-> "create_product", msg |-> "Please enter a product name."]
    /\ UNCHANGED <<users, orders, page, user, cart, calls>>

\* Store page, "Add <name> to Cart" of the i-th listed product.
AddToCart(i, qty) ==
    /\ page = "store"
    /\ Len(cart) + OrderLines(orders) < MaxLines
    /\ i \in 1..Len(products)
    /\ LET p == list_products(products)[i]
       IN  cart' = Append(cart, [product_id |-> StrOfId(p._id), name |-> p.name,
                                 price |-> p.price, qty |-> qty])
    /\ ui' = [event |-> "add_to_cart", msg |-> "Added to cart!"]
    /\ UNCHANGED <<users, products, orders, page, user, calls>>

PlaceOrderButton_ClearsFirst(dbOk) ==
    /\ page = "store"
    /\ cart # <<>>
    /\ LET r == place_order(orders, user._id, user.username, cart, dbOk)
       IN  /\ orders' = r.orders
           /\ cart' = <<>>
           /\ ui' = [event |-> "place_order",
                     msg |-> IF r.raised THEN "PersistenceUnavailable"
                             ELSE "Order placed successfully!"]
    /\ UNCHANGED <<users, products, page, user, calls>>

\* Cart sidebar, "Place Order"; shown only while the cart is not empty.  A raise
\* inside place_order ends the rerun before the cart is cleared.
PlaceOrderButton(dbOk) ==
    /\ page = "store"
    /\ cart # <<>>
    /\ LET r == place_order(orders, user._id, user.username, cart, dbOk)
       IN  /\ orders' = r.orders
           /\ cart' = IF r.raised THEN cart ELSE <<>>
           /\ ui' = [event |-> "place_order",
                     msg |-> IF r.raised THEN "PersistenceUnavailable"
                             ELSE "Order placed successfully!"]
    /\ UNCHANGED <<users, products, page, user, calls>>

Next ==
    \/ \E u \in Usernames, p \in Passwords : LoginAsAdmin(u, p)
    \/ \E u \in Usernames, p \in Passwords : LoginAsUser(u, p)
    \/ Logout
    \/ BackToLogin
    \/ \E u \in Usernames, p \in Passwords : CreateUserForm(u, p)
    \/ \E in \in ProductInputs : AddProductForm(in[1], in[2])
    \/ \E i \in 1..MaxProducts, q \in Quantities : AddToCart(i, q)
    \/ \E dbOk \in BOOLEAN : PlaceOrderButton(dbOk)

Spec == Init /\ [][Next]_vars

-----------------------------------------------------------------------------
(* SpecAccounts: get_db run at each process start against the database    *)
(* the earlier runs left, and create_user called with any arguments.       *)
(* SpecApi: create_product and place_order called with any arguments.      *)

\* The cart of the documented example, and its prefixes.
ExampleItems ==
    << [product_id |-> StrOfId(1), name |-> "Shirt", price |-> 299, qty |-> 2],
       [product_id |-> StrOfId(2), name |-> "Shoes", price |-> 999, qty |-> 1] >>

ApiItemLists == {SubSeq(ExampleItems, 1, n) : n \in 0..2}

\* Ids a stored user can have: a username is stored at most once per role.
UserIds == 1..(Cardinality(Usernames) * Cardinality(Roles))

ApiProductInputs == {<<"Shirt", 299>>, <<"", 299>>, <<"Shirt", -1>>}

InitApi ==
    /\ users = <<>>
    /\ products = <<>>
    /\ orders = <<>>
    /\ page = "login"
    /\ user = None
    /\ cart = <<>>
    /\ ui = [event |-> "start", msg |-> ""]
    /\ calls = [s \in Sessions |-> IdleCall]

\* A process start: get_db() with the secrets then configured ("" is unset).
ProcessStart(admin_user, admin_password) ==
    /\ \E salt \in Salts :
           users' = bootstrap_admin(users, admin_user, admin_password, salt)
    /\ ui' = [event |-> "get_db", msg |-> ""]
    /\ UNCHANGED <<products, orders, page, user, cart, calls>>

ApiCreateUser(username, password, role) ==
    /\ \E salt \in Salts :
           LET r == create_user(users, username, password, role, salt)
           IN  /\ users' = r.users
               /\ ui' = [event |-> "create_user", msg |-> r.msg]
    /\ UNCHANGED <<products, orders, page, user, cart, calls>>

ApiCreateProduct(name, price) ==
    /\ Len(products) < MaxProducts
    /\ products' = create_product(products, name, price)
    /\ ui' = [event |-> "create_product", msg |-> "True"]
    /\ UNCHANGED <<users, orders, page, user, cart, calls>>

ApiPlaceOrder(i, items, dbOk) ==
    /\ i \in 1..Len(users)
    /\ Len(orders) + OrderLines(orders) + Len(items) <= MaxLines
    /\ LET r == place_order(orders, StrOfId(i), users[i].username, items, dbOk)
       IN  /\ orders' = r.orders
           /\ ui' = [event |-> "place_order",
                     msg |-> IF r.raised THEN "PersistenceUnavailable" ELSE "placed"]
    /\ UNCHANGED <<users, products, page, user, cart, calls>>

NextAccounts ==
    \/ \E au \in Usernames \cup {""} : ProcessStart(au, AdminPassword)
    \/ \E u \in Usernames, p \in Passwords, r \in Roles : ApiCreateUser(u, p, r)

SpecAccounts == InitApi /\ [][NextAccounts]_vars

NextApi ==
    \/ \E in \in ApiProductInputs : ApiCreateProduct(in[1], in[2])
    \/ \E i \in UserIds, items \in ApiItemLists, dbOk \in BOOLEAN :
           ApiPlaceOrder(i, items, dbOk)

SpecApi == Init /\ [][NextApi]_vars

-----------------------------------------------------------------------------
(* SpecConc: two admin sessions inside create_user; find_one and           *)
(* insert_one are the atomic steps, hashing is local to the call.          *)

InitConc == Init

\* A session submits create_user_form: create_user(new_user, new_pass) begins.
CallCreateUser(s, username, password) ==
    /\ calls[s].pc \in {"idle", "done"}
    /\ calls' = [calls EXCEPT ![s] = [pc |-> "find", username |-> username,
                                      password |-> password, ok |-> FALSE]]
    /\ UNCHANGED <<users, products, orders, page, user, cart, ui>>

\* users_col.find_one({"username": username}), and the early return.
FindOne(s) ==
    /\ calls[s].pc = "find"
    /\ calls' = [calls EXCEPT ![s].pc =
                    IF find_user(users, calls[s].username) # 0 THEN "done" ELSE "insert"]
    /\ UNCHANGED <<users, products, orders, page, user, cart, ui>>

\* hash_password, users_col.insert_one, return True.
InsertOne(s) ==
    /\ calls[s].pc = "insert"
    /\ \E salt \in Salts :
           users' = Append(users, [username |-> calls[s].username,
                                   password |-> hash_password(calls[s].password, salt),
                                   role |-> "user"])
    /\ calls' = [calls EXCEPT ![s].pc = "done", ![s].ok = TRUE]
    /\ UNCHANGED <<products, orders, page, user, cart, ui>>

NextConc ==
    \/ \E s \in Sessions, u \in Usernames, p \in Passwords : CallCreateUser(s, u, p)
    \/ \E s \in Sessions : FindOne(s)
    \/ \E s \in Sessions : InsertOne(s)

SpecConc == InitConc /\ [][NextConc]_vars

-----------------------------------------------------------------------------
(* Properties *)

\* Documents of users_col stored under a username.
RecordsOf(username) == {i \in 1..Len(users) : users[i].username = username}

\* C1 (SpecAccounts): no two stored user records have the same username, whatever
\* sequence of process starts (admin bootstrap) and create_user calls ran.
C1_UsernamesUnique ==
    \A i, j \in 1..Len(users) : users[i].username = users[j].username => i = j

\* C2 (Spec): Place Order and the cart clear are one step. When persisting the
\* order raised, the cart keeps exactly its items and no order is added; the cart
\* is emptied only together with the order, built from that cart, being stored;
\* the session stays on the store page.
C2_PlaceOrderAtomic ==
    [][ui'.event = "place_order" =>
          /\ page = "store" /\ page' = "store" /\ user' = user
          /\ ui'.msg = "PersistenceUnavailable" => (cart' = cart /\ orders' = orders)
          /\ ui'.msg # "PersistenceUnavailable" =>
                 /\ cart' = <<>>
                 /\ Len(orders') = Len(orders) + 1
                 /\ orders'[Len(orders')].items = cart
          /\ cart' # cart => Len(orders') = Len(orders) + 1
          /\ Len(orders') \in {Len(orders), Len(orders) + 1}
          /\ \A i \in 1..Len(orders) : orders'[i] = orders[i]]_vars

\* A failed Place Order: the handler ran, raised, and the cart still holds its lines.
C2_Witness ==
    /\ ui = [event |-> "place_order", msg |-> "PersistenceUnavailable"]
    /\ page = "store"
    /\ Len(cart) = 2
    /\ orders = <<>>

\* C3 (SpecApi): place_order with an empty item list, for any stored user, fails
\* (it does not report an order placed) and leaves orders_col as it was.
C3_EmptyCartRejected ==
    [][\A i \in UserIds, dbOk \in BOOLEAN :
          ApiPlaceOrder(i, <<>>, dbOk) => (orders' = orders /\ ui'.msg # "placed")]_vars

RECURSIVE Subtotals(_, _)
\* The first n line subtotals (unit price times quantity) of items, added up.
Subtotals(items, n) ==
    IF n = 0 THEN 0 ELSE Subtotals(items, n - 1) + items[n].price * items[n].qty

C4_TotalsMatch ==
    \A i \in 1..Len(orders) : orders[i].total = Subtotals(orders[i].items, Len(orders[i].items))

\* C4 (Spec): every stored order's total is the sum of price x quantity over its
\* own items; a stored order is never changed or removed; an order is added only
\* by Place Order, one at a time, with exactly the placing session's cart as items
\* and that session's user as owner.
C4_OrderTotals ==
    /\ []C4_TotalsMatch
    /\ [][/\ Len(orders') >= Len(orders)
          /\ \A i \in 1..Len(orders) : orders'[i] = orders[i]
          /\ Len(orders') > Len(orders) =>
                 /\ ui'.event = "place_order"
                 /\ Len(orders') = Len(orders) + 1
                 /\ orders'[Len(orders')].items = cart
                 /\ orders'[Len(orders')].username = user.username
                 /\ orders'[Len(orders')].status = "placed"]_vars

\* The documented order: Shirt 299 x 2 and Shoes 999 x 1, total 1597.
C4_Witness ==
    \E i \in 1..Len(orders) :
        /\ Len(orders[i].items) = 2
        /\ orders[i].items[1].price = 299 /\ orders[i].items[1].qty = 2
        /\ orders[i].items[2].price = 999 /\ orders[i].items[2].qty = 1
        /\ orders[i].total = 1597

\* C5 (Spec): the page matches the role of the logged-in account: on the admin
\* page the current user is a stored account of role admin, on the store page a
\* stored account of role user.
C5_RoleMatchesPage ==
    /\ page = "admin" =>
           /\ user # None /\ user.role = "admin"
           /\ ObjectId(user._id) \in 1..Len(users)
           /\ users[ObjectId(user._id)].role = "admin"
           /\ users[ObjectId(user._id)].username = user.username
    /\ page = "store" =>
           /\ user # None /\ user.role = "user"
           /\ ObjectId(user._id) \in 1..Len(users)
           /\ users[ObjectId(user._id)].role = "user"
           /\ users[ObjectId(user._id)].username = user.username

\* An admin is logged in while an account of role user exists.
C5_Witness ==
    /\ page = "admin"
    /\ ui.event = "login_admin"
    /\ \E i \in 1..Len(users) : users[i].role = "user"

\* C6 (Spec): an unknown username (u1) and a known username with a wrong password
\* (u2, p2) are indistinguishable: authenticate returns the same value, and on the
\* login page either tab's button leaves the same session and shows the same
\* message: still on the login page, no current user, cart as it was.
C6_FailureIndistinguishable ==
    \A u1, u2 \in Usernames, p1, p2 \in Passwords :
        (/\ RecordsOf(u1) = {}
         /\ RecordsOf(u2) # {}
         /\ ~check_password(p2, users[find_user(users, u2)].password))
        => /\ authenticate(users, u1, p1) = authenticate(users, u2, p2)
           /\ page = "login" =>
                  /\ login_admin(u1, p1) = login_admin(u2, p2)
                  /\ login_user(u1, p1) = login_user(u2, p2)
                  /\ login_admin(u1, p1) =
                         [user |-> None, page |-> "login", cart |-> cart,
                          msg |-> "Invalid admin credentials."]
                  /\ login_user(u1, p1) =
                         [user |-> None, page |-> "login", cart |-> cart,
                          msg |-> "Invalid user credentials."]

\* A login was refused while one username is stored and the other is not.
C6_Witness ==
    /\ page = "login"
    /\ ui = [event |-> "login_user", msg |-> "Invalid user credentials."]
    /\ \E u1, u2 \in Usernames : RecordsOf(u1) = {} /\ RecordsOf(u2) # {}

\* C7 (Spec): create_user with a stored username reports "User already exists!"
\* and leaves users_col as it was; afterwards authenticate accepts every password
\* the found record accepted and refuses the rejected call's password when it is
\* a different one.
C7_DuplicateRejected ==
    [][\A u \in Usernames, p \in Passwords :
          (CreateUserForm(u, p) /\ RecordsOf(u) # {}) =>
              /\ users' = users
              /\ ui' = [event |-> "create_user", msg |-> "User already exists!"]
              /\ \A q \in Passwords :
                     check_password(q, users[find_user(users, u)].password) =>
                         authenticate(users', u, q) # None
              /\ ~check_password(p, users[find_user(users, u)].password) =>
                     authenticate(users', u, p) = None]_vars

\* create_user was refused for "alice", whose record is stored once.
C7_Witness ==
    /\ ui = [event |-> "create_user", msg |-> "User already exists!"]
    /\ Cardinality(RecordsOf("alice")) = 1

\* C8 (SpecApi): create_product with an empty name or a negative price fails with
\* InvalidInput and inserts nothing, so every stored product has a non-empty name
\* and a non-negative price.
C8_InvalidProductRejected ==
    /\ [](\A i \in 1..Len(products) : products[i].name # "" /\ products[i].price >= 0)
    /\ [][\A in \in ApiProductInputs :
              (ApiCreateProduct(in[1], in[2]) /\ (in[1] = "" \/ in[2] < 0)) =>
                  (products' = products /\ ui'.msg = "InvalidInput")]_vars

\* C9 (Spec): either logout button ends on the login page with no current user
\* and an empty cart, and leaves the three collections as they were; the login
\* page never holds a cart, so a login starts with an empty one.
C9_LogoutClears ==
    /\ [](page = "login" => (user = None /\ cart = <<>>))
    /\ [][/\ ui'.event \in {"logout", "back_to_login"} =>
                 /\ page' = "login" /\ user' = None /\ cart' = <<>>
                 /\ users' = users /\ products' = products /\ orders' = orders
          /\ (page = "login" /\ page' # "login") => cart' = <<>>]_vars

\* Logged out after shopping: products exist, an order was placed, then logout.
C9_Witness ==
    /\ ui.event = "logout"
    /\ page = "login"
    /\ orders # <<>>

\* C10 (SpecConc): of two create_user calls for one username that have both
\* returned, at most one returned success, and users_col holds at most one record
\* of that username.
C10_ConcurrentUnique ==
    \A s, t \in Sessions :
        (/\ s # t
         /\ calls[s].pc = "done" /\ calls[t].pc = "done"
         /\ calls[s].username = calls[t].username)
        => /\ ~(calls[s].ok /\ calls[t].ok)
           /\ Cardinality(RecordsOf(calls[s].username)) <= 1

====
